---- MODULE Spec2Model ----
(***************************************************************************)
(* Perfit (src/perfit.py): a decorator that records the execution time and *)
(* the peak traced memory of every call of a wrapped function, an outlier  *)
(* filter over the recorded times, and a statistics report.                *)
(*                                                                         *)
(* The model follows the wrapper statement by statement, so that wrapped   *)
(* calls may nest (a wrapped function calling a wrapped function) and may  *)
(* run on several threads.  tracemalloc and time.perf_counter are the      *)
(* process-global facilities the wrapper uses; both are state here.        *)
(***************************************************************************)
EXTENDS Integers, Sequences, FiniteSets, TLC

(***************************************************************************)
(* Bounds of the model.                                                    *)
(***************************************************************************)
MaxCalls == 2        \* wrapped calls started in one behaviour
MaxTime == 1         \* ticks of the perf_counter clock
MaxPeakKB == 1       \* kilobytes the traced peak may reach
MaxScaler == 1       \* largest small badDataScaler tried (besides the default)
MaxLen == 3          \* length of the value lists given to the filter alone
MaxVal == 2          \* largest value in those lists

(***************************************************************************)
(* Program constants.                                                      *)
(***************************************************************************)
DefaultScaler == 1000    \* __init__(self, badDataScaler=1000)
KB == 1024               \* "m": mem_usage / 1024

Threads == {"T1", "T2"}

\* The callables handed to Perfit.__call__, and their declared names.
\* f1 and f2 are two distinct callables that share the name "f".
Callables == {"f1", "f2", "g1"}
Names == {"f", "g"}

\* func.__name__
FuncName(c) == IF c = "g1" THEN "g" ELSE "f"

\* The exceptions a target may raise.
Excs == {"ValueError", "KeyError"}


Scalers == (0 .. MaxScaler) \cup {DefaultScaler}

VARIABLES
    results,        \* self.results: function name -> list of {"t", "m"}
    keys,           \* insertion order of the keys of self.results (dict order)
    badDataScaler,  \* self.badDataScaler
    tracing,        \* tracemalloc: is a tracing session active
    peak,           \* tracemalloc: peak traced bytes of the active session
    now,            \* time.perf_counter()
    wrapped,        \* the callables the host has decorated with the Recorder
    stack,          \* per thread of the host, the wrapper frames being executed
    calls,          \* history: one entry per wrapped call, in invocation order
    log,            \* history: the call that appended each Sample of results
    report,         \* prints: the analysis printed per function
    status,         \* prints: how the last prints() ended
    dirExists,      \* os.path.exists("performances")
    files,          \* the function names that have a saved .json file
    plotted,        \* plots: how the last plots() ended
    values,         \* the argument of a direct _filter_bad_data call
    called,         \* whether that call has been made
    filtered        \* its result

vars == <<results, keys, badDataScaler, tracing, peak, now, wrapped,
          stack, calls, log, report, status, dirExists, files, plotted, values,
          called, filtered>>

recorderVars == <<results, keys, log>>
reportVars == <<report, status, dirExists, files, plotted>>
filterVars == <<values, called, filtered>>

(***************************************************************************)
(* Pure helpers.                                                           *)
(***************************************************************************)
Top(t) == stack[t][Len(stack[t])]
Pop(s) == SubSeq(s, 1, Len(s) - 1)
SetTop(t, fr) == [stack EXCEPT ![t] = [@ EXCEPT ![Len(@)] = fr]]

RECURSIVE Sum(_)
Sum(s) == IF s = <<>> THEN 0 ELSE s[1] + Sum(Tail(s))

RECURSIVE Max(_)
\* max(times): raises ValueError on an empty list, so only used on non-empty ones
Max(s) == IF Len(s) = 1 THEN s[1]
          ELSE LET r == Max(Tail(s)) IN IF s[1] >= r THEN s[1] ELSE r

RECURSIVE Min(_)
Min(s) == IF Len(s) = 1 THEN s[1]
          ELSE LET r == Min(Tail(s)) IN IF s[1] <= r THEN s[1] ELSE r

RECURSIVE Insert(_, _)
Insert(v, s) == IF s = <<>> THEN <<v>>
                ELSE IF v <= s[1] THEN <<v>> \o s
                ELSE <<s[1]>> \o Insert(v, Tail(s))

RECURSIVE Sorted(_)
Sorted(s) == IF s = <<>> THEN <<>> ELSE Insert(s[1], Sorted(Tail(s)))

\* np.median of a non-empty list, doubled so that the mean of the two middle
\* elements of an even-length list stays an integer: Median2(s) = 2 * median.
Median2(s) ==
    LET srt == Sorted(s)
        n == Len(s)
    IN  IF n % 2 = 1 THEN 2 * srt[(n + 1) \div 2]
        ELSE srt[n \div 2] + srt[n \div 2 + 1]

\* A faulty filter: the boundary value is rejected (< for <=).
filter_bad_data_strict(vals) ==
    SelectSeq(vals, LAMBDA v : 2 * v < Median2(vals) * badDataScaler)

\* Perfit._filter_bad_data: [v for v in values if v <= median * badDataScaler].
\* Both sides of the comparison are doubled.  On an empty list np.median is
\* nan and the comprehension has nothing to keep: the result is empty.
filter_bad_data(vals) ==
    SelectSeq(vals, LAMBDA v : 2 * v <= Median2(vals) * badDataScaler)

times_of(data) == [i \in 1 .. Len(data) |-> data[i].t]
memories_of(data) == [i \in 1 .. Len(data) |-> data[i].m]

(***************************************************************************)
(* The initial state: Perfit(badDataScaler), nothing recorded, tracemalloc *)
(* not tracing, no "performances" directory.                               *)
(***************************************************************************)
NoAnalysis == [n \in {} |-> 0]

\* A host program: its threads, the callables it decorates, the scaler it
\* constructs the Recorder with and the list it hands to the filter.
Host(threads, callables, scalers, lists) ==
    /\ results = [n \in {} |-> <<>>]
    /\ keys = <<>>
    /\ badDataScaler \in scalers
    /\ tracing = FALSE
    /\ peak = 0
    /\ now = 0
    /\ wrapped = callables
    /\ stack = [t \in threads |-> <<>>]
    /\ calls = <<>>
    /\ log = [n \in {} |-> <<>>]
    /\ report = NoAnalysis
    /\ status = "none"
    /\ dirExists = FALSE
    /\ files = {}
    /\ plotted = "none"
    /\ values \in lists
    /\ called = FALSE
    /\ filtered = <<>>

\* Two threads share a Recorder built with the default scaler, Perfit().
Init == Host(Threads, Callables, {DefaultScaler}, {<<>>})

(***************************************************************************)
(* Perfit.__call__.wrapper.  A frame's pc names the statement it executes  *)
(* next:                                                                   *)
(*   "start"   line 74-75  tracemalloc.start(); start_time = perf_counter()*)
(*   "body"    line 78     result = func(...)                              *)
(*   "stop"    line 83-86  tracemalloc.stop(); if name not in self.results *)
(*   "create"  line 87     self.results[func.__name__] = []                *)
(*   "append"  line 88-93  self.results[func.__name__].append(...); return *)
(* Statements are joined into one step where the first touches no state    *)
(* another call can change in between: perf_counter only reads the clock,  *)
(* an exception leaving the wrapper touches nothing shared, and            *)
(* tracemalloc.stop() and the membership test touch different objects.     *)
(***************************************************************************)
InBody(t) == t \in DOMAIN stack /\ stack[t] # <<>> /\ Top(t).pc = "body"
At(t, p) == t \in DOMAIN stack /\ stack[t] # <<>> /\ Top(t).pc = p

\* The host program measures first and reports afterwards: wrapped calls are
\* made as long as no report operation has run.
Measuring == status = "none" /\ plotted = "none" /\ ~dirExists

\* A wrapped callable is invoked: by the thread itself, or by the target of the
\* wrapped call the thread is executing (a nested call).
Call(t, c) ==
    /\ Measuring
    /\ c \in wrapped
    /\ Len(calls) < MaxCalls
    /\ t \in DOMAIN stack
    /\ stack[t] = <<>> \/ InBody(t)
    /\ stack' = [stack EXCEPT ![t] = Append(@,
                    [func |-> c, id |-> Len(calls) + 1, pc |-> "start",
                     start_time |-> 0, end_time |-> 0, mem_usage |-> 0,
                     had |-> FuncName(c) \in DOMAIN results,
                     res0 |-> results])]
    /\ calls' = Append(calls, [func |-> c, thread |-> t, st |-> "active",
                               ret |-> 0, exc |-> "none", seen |-> "none"])
    /\ UNCHANGED <<recorderVars, badDataScaler, wrapped, tracing, peak, now,
                   reportVars, filterVars>>

\* tracemalloc.start() does nothing when a session is already active; a new
\* session starts with an empty peak.  start_time = time.perf_counter().
Enter(t) ==
    /\ At(t, "start")
    /\ tracing' = TRUE
    /\ peak' = IF tracing THEN peak ELSE 0
    /\ stack' = SetTop(t, [Top(t) EXCEPT !.pc = "body", !.start_time = now])
    /\ UNCHANGED <<recorderVars, badDataScaler, wrapped, now, calls, reportVars,
                   filterVars>>

\* The target allocates: an active session sees its peak grow.  Without an
\* active session tracemalloc records nothing.
Alloc(t) ==
    /\ InBody(t)
    /\ tracing
    /\ peak < MaxPeakKB * KB
    /\ peak' = peak + KB
    /\ UNCHANGED <<recorderVars, badDataScaler, wrapped, tracing, now, stack, calls,
                   reportVars, filterVars>>

\* Time passes while some target runs.
Tick ==
    /\ \E t \in DOMAIN stack : \E i \in 1 .. Len(stack[t]) : stack[t][i].pc = "body"
    /\ now < MaxTime
    /\ now' = now + 1
    /\ UNCHANGED <<recorderVars, badDataScaler, wrapped, tracing, peak, stack, calls,
                   reportVars, filterVars>>

\* func returns (line 78); end_time = time.perf_counter() (line 81);
\* current, mem_usage = tracemalloc.get_traced_memory() (line 82), which is
\* (0, 0) when no session is active.
Return(t) ==
    /\ InBody(t)
    /\ stack' = SetTop(t, [Top(t) EXCEPT !.pc = "stop", !.end_time = now,
                               !.mem_usage = IF tracing THEN peak ELSE 0])
    /\ calls' = [calls EXCEPT ![Top(t).id] =
                    [@ EXCEPT !.st = "returned",
                              !.ret = 1 + Cardinality({i \in 1 .. Len(calls) :
                                                        calls[i].ret > 0})]]
    /\ UNCHANGED <<recorderVars, badDataScaler, wrapped, tracing, peak, now,
                   reportVars, filterVars>>

\* A faulty wrapper: it catches the failure of the target, records a Sample
\* for the failed call and raises an error of its own.
RaiseRecording(t, e) ==
    /\ InBody(t)
    /\ LET n == FuncName(Top(t).func) IN
        /\ results' = IF n \in DOMAIN results
                      THEN [results EXCEPT ![n] = Append(@, [t |-> 0, m |-> 0])]
                      ELSE results @@ (n :> <<[t |-> 0, m |-> 0]>>)
        /\ keys' = IF n \in DOMAIN results THEN keys ELSE Append(keys, n)
        /\ log' = IF n \in DOMAIN log
                  THEN [log EXCEPT ![n] = Append(@, Top(t).id)]
                  ELSE log @@ (n :> <<Top(t).id>>)
    /\ calls' = [calls EXCEPT ![Top(t).id] =
                    [@ EXCEPT !.st = "raised", !.exc = e, !.seen = "PerfitError"]]
    /\ stack' = [stack EXCEPT ![t] = Pop(@)]
    /\ UNCHANGED <<badDataScaler, wrapped, tracing, peak, now, reportVars, filterVars>>

\* func raises e (line 78).  The wrapper has no try/except/finally: lines
\* 81-93 are skipped and the caller of the wrapper sees e as raised.
Raise(t, e) ==
    /\ InBody(t)
    /\ calls' = [calls EXCEPT ![Top(t).id] =
                    [@ EXCEPT !.st = "raised", !.exc = e, !.seen = e]]
    /\ stack' = [stack EXCEPT ![t] = Pop(@)]
    /\ UNCHANGED <<recorderVars, badDataScaler, wrapped, tracing, peak, now,
                   reportVars, filterVars>>

\* A faulty wrapper: the record is created on every call, without the test.
StopAlwaysCreate(t) ==
    /\ At(t, "stop")
    /\ tracing' = FALSE
    /\ peak' = 0
    /\ stack' = SetTop(t, [Top(t) EXCEPT !.pc = "create"])
    /\ UNCHANGED <<recorderVars, badDataScaler, wrapped, now, calls, reportVars,
                   filterVars>>

\* tracemalloc.stop() ends the session, whoever started it, and clears it
\* (line 83); if func.__name__ not in self.results (line 86).
Stop(t) ==
    /\ At(t, "stop")
    /\ tracing' = FALSE
    /\ peak' = 0
    /\ stack' = SetTop(t, [Top(t) EXCEPT !.pc =
                    IF FuncName(Top(t).func) \notin DOMAIN results
                    THEN "create" ELSE "append"])
    /\ UNCHANGED <<recorderVars, badDataScaler, wrapped, now, calls, reportVars,
                   filterVars>>

\* self.results[func.__name__] = []: inserts the key, or replaces the list the
\* key already has (its place in the dict order is kept).
Create(t) ==
    /\ At(t, "create")
    /\ LET n == FuncName(Top(t).func) IN
        /\ results' = IF n \in DOMAIN results
                      THEN [results EXCEPT ![n] = <<>>]
                      ELSE results @@ (n :> <<>>)
        /\ keys' = IF n \in DOMAIN results THEN keys ELSE Append(keys, n)
        /\ log' = IF n \in DOMAIN log
                  THEN [log EXCEPT ![n] = <<>>]
                  ELSE log @@ (n :> <<>>)
    /\ stack' = SetTop(t, [Top(t) EXCEPT !.pc = "append"])
    /\ UNCHANGED <<badDataScaler, wrapped, tracing, peak, now, calls, reportVars,
                   filterVars>>

\* The Sample of a frame: {"t": end_time - start_time, "m": mem_usage / 1024}.
\* Traced bytes are whole kilobytes here, so the division is exact.
Sample(fr) == [t |-> fr.end_time - fr.start_time, m |-> fr.mem_usage \div KB]

\* A faulty wrapper: the Sample is put at the head of the list.
PrependSample(t) ==
    /\ At(t, "append")
    /\ LET n == FuncName(Top(t).func) IN
        /\ results' = [results EXCEPT ![n] = <<Sample(Top(t))>> \o @]
        /\ log' = [log EXCEPT ![n] = <<Top(t).id>> \o @]
    /\ calls' = [calls EXCEPT ![Top(t).id] = [@ EXCEPT !.seen = "returned"]]
    /\ stack' = [stack EXCEPT ![t] = Pop(@)]
    /\ UNCHANGED <<keys, badDataScaler, wrapped, tracing, peak, now, reportVars,
                   filterVars>>

\* self.results[func.__name__].append({...}); return result.  The lookup of
\* the list and the append are one step: an append to a list that another
\* call replaces in between is lost exactly as one that is replaced after.
AppendSample(t) ==
    /\ At(t, "append")
    /\ LET n == FuncName(Top(t).func) IN
        /\ results' = [results EXCEPT ![n] = Append(@, Sample(Top(t)))]
        /\ log' = [log EXCEPT ![n] = Append(@, Top(t).id)]
    /\ calls' = [calls EXCEPT ![Top(t).id] = [@ EXCEPT !.seen = "returned"]]
    /\ stack' = [stack EXCEPT ![t] = Pop(@)]
    /\ UNCHANGED <<keys, badDataScaler, wrapped, tracing, peak, now, reportVars,
                   filterVars>>

(***************************************************************************)
(* Perfit.prints, Perfit._to_json and Perfit.plots.  The saved files are   *)
(* kept by function name only, and a figure by whether it was drawn: the   *)
(* contents of the files and of the figure are not part of the model.      *)
(***************************************************************************)
Idle == \A t \in DOMAIN stack : stack[t] = <<>>

RECURSIVE SumSq(_)
SumSq(s) == IF s = <<>> THEN 0 ELSE s[1] * s[1] + SumSq(Tail(s))

\* A faulty analysis: the memory of the Samples whose time was rejected is
\* left out of the mean memory as well.
AnalysisMemFiltered(data) ==
    LET times == filter_bad_data(times_of(data))
        kept == SelectSeq(data, LAMBDA e :
                    2 * e.t <= Median2(times_of(data)) * badDataScaler)
        memories == memories_of(kept)
    IN  [Count |-> Len(times),
         Total |-> Sum(times),
         Maximum |-> Max(times),
         Minimum |-> Min(times),
         Average |-> <<Sum(times), Len(times)>>,
         Median |-> <<Median2(times), 2>>,
         StdSq |-> <<Len(times) * SumSq(times) - Sum(times) * Sum(times),
                     Len(times) * Len(times)>>,
         MeanMemory |-> <<Sum(memories), Len(memories)>>]

\* The analysis dict of prints (lines 137-152) for one function with at least
\* one time left after filtering.  A quotient is the pair <<numerator,
\* denominator>>; StdSq is the square of np.std (the population variance).
Analysis(data) ==
    LET times == filter_bad_data(times_of(data))
        memories == memories_of(data)
    IN  [Count |-> Len(times),
         Total |-> Sum(times),
         Maximum |-> Max(times),
         Minimum |-> Min(times),
         Average |-> <<Sum(times), Len(times)>>,
         Median |-> <<Median2(times), 2>>,
         StdSq |-> <<Len(times) * SumSq(times) - Sum(times) * Sum(times),
                     Len(times) * Len(times)>>,
         MeanMemory |-> <<Sum(memories), Len(memories)>>]

\* max(times) raises ValueError("max() arg is an empty sequence") when no time
\* is left: the dict literal is evaluated in order and max comes third.
NothingLeft(data) == filter_bad_data(times_of(data)) = <<>>

\* _to_json: creates the directory and writes one file per recorded function.
Saved(st) == [st EXCEPT !.dirExists = TRUE, !.files = @ \cup DOMAIN results]

\* plots: returns early without the directory or without files in it.
Plotted(st) == [st EXCEPT !.plotted =
                    IF ~st.dirExists THEN "no directory"
                    ELSE IF st.files = {} THEN "no files"
                    ELSE "figure"]

RECURSIVE PrintsFrom(_, _, _)
\* The loop of prints from the i-th key on: analyse, print, save, plot.
PrintsFrom(i, showPlot, st) ==
    IF i > Len(keys) THEN [st EXCEPT !.status = "ok"]
    ELSE IF NothingLeft(results[keys[i]]) THEN [st EXCEPT !.status = "ValueError"]
    ELSE LET printed == [st EXCEPT !.report =
                            @ @@ (keys[i] :> Analysis(results[keys[i]]))]
             saved == Saved(printed)
         IN  PrintsFrom(i + 1, showPlot,
                        IF showPlot THEN Plotted(saved) ELSE saved)

prints(showPlot) ==
    LET st == PrintsFrom(1, showPlot,
                  [report |-> NoAnalysis, status |-> "none",
                   dirExists |-> dirExists, files |-> files,
                   plotted |-> plotted])
    IN  /\ Idle
        /\ report' = st.report
        /\ status' = st.status
        /\ dirExists' = st.dirExists
        /\ files' = st.files
        /\ plotted' = st.plotted
        /\ UNCHANGED <<recorderVars, badDataScaler, wrapped, tracing, peak, now, stack,
                       calls, filterVars>>

to_json ==
    LET st == Saved([dirExists |-> dirExists, files |-> files])
    IN  /\ Idle
        /\ dirExists' = st.dirExists
        /\ files' = st.files
        /\ UNCHANGED <<recorderVars, badDataScaler, wrapped, tracing, peak, now, stack,
                       calls, report, status, plotted, filterVars>>

plots ==
    /\ Idle
    /\ plotted' = Plotted([dirExists |-> dirExists, files |-> files,
                           plotted |-> plotted]).plotted
    /\ UNCHANGED <<recorderVars, badDataScaler, wrapped, tracing, peak, now, stack,
                   calls, report, status, dirExists, files, filterVars>>

(***************************************************************************)
(* The specification of the Recorder in use.                               *)
(***************************************************************************)
Next ==
    \/ \E t \in Threads, c \in Callables : Call(t, c)
    \/ \E t \in Threads : Enter(t)
    \/ \E t \in Threads : Alloc(t)
    \/ Tick
    \/ \E t \in Threads : Return(t)
    \/ \E t \in Threads, e \in Excs : Raise(t, e)
    \/ \E t \in Threads : Stop(t)
    \/ \E t \in Threads : Create(t)
    \/ \E t \in Threads : AppendSample(t)
    \/ \E showPlot \in BOOLEAN : prints(showPlot)
    \/ to_json
    \/ plots

Spec == Init /\ [][Next]_vars

\* The same host with a single thread: wrapped calls still nest.
InitSeq == Host({"T1"}, Callables, {DefaultScaler}, {<<>>})

SpecSeq == InitSeq /\ [][Next]_vars

\* One thread measures one function and reports, for each scaler.
InitReport == Host({"T1"}, {"f1"}, Scalers, {<<>>})

SpecReport == InitReport /\ [][Next]_vars

(***************************************************************************)
(* The specification of the outlier filter called on its own: a Recorder   *)
(* with some badDataScaler and an arbitrary list of values.                *)
(***************************************************************************)
ValueLists == UNION {[1 .. n -> (0 - 1) .. MaxVal] : n \in 0 .. MaxLen}

InitFilter == Host({"T1"}, {}, Scalers, ValueLists)

FilterCall ==
    /\ ~called
    /\ called' = TRUE
    /\ filtered' = filter_bad_data(values)
    /\ UNCHANGED <<recorderVars, badDataScaler, wrapped, tracing, peak, now, stack,
                   calls, reportVars, values>>

NextFilter == FilterCall

SpecFilter == InitFilter /\ [][NextFilter]_vars

(***************************************************************************)
(* Vocabulary of the properties.                                           *)
(***************************************************************************)
IsPrefix(a, b) == Len(a) <= Len(b) /\ SubSeq(b, 1, Len(a)) = a

\* The k-th smallest index of a set of indices.
Nth(I, k) == CHOOSE i \in I : Cardinality({j \in I : j < i}) = k - 1

\* The subsequence of s at the indices I, in the order of s.
Pick(s, I) == [k \in 1 .. Cardinality(I) |-> s[Nth(I, k)]]

\* The k-th smallest element of a non-empty list, by counting.
KthSmallest(s, k) ==
    CHOOSE x \in {s[i] : i \in 1 .. Len(s)} :
        /\ Cardinality({i \in 1 .. Len(s) : s[i] < x}) < k
        /\ k <= Cardinality({i \in 1 .. Len(s) : s[i] <= x})

\* Twice the median: the two middle elements (the same one for an odd length).
MedianTwice(s) ==
    KthSmallest(s, (Len(s) + 1) \div 2) + KthSmallest(s, Len(s) \div 2 + 1)

\* The indices of the values at or below median * scaler.
AtOrBelow(s, scaler) == {i \in 1 .. Len(s) : 2 * s[i] <= MedianTwice(s) * scaler}

RECURSIVE SumAt(_, _)
SumAt(s, I) == IF I = {} THEN 0
               ELSE LET i == CHOOSE j \in I : TRUE IN s[i] + SumAt(s, I \ {i})

SquaresOf(s) == [i \in 1 .. Len(s) |-> s[i] * s[i]]

(***************************************************************************)
(* C1.  For a non-empty list and a scaler >= 1, _filter_bad_data returns   *)
(* exactly the elements v <= median * scaler, in their original order:     *)
(* nothing above the threshold is kept and nothing at or below is dropped. *)
(***************************************************************************)
C1_FilterKeepsExactlyAtOrBelow ==
    (called /\ values # <<>> /\ badDataScaler >= 1) =>
        filtered = Pick(values, AtOrBelow(values, badDataScaler))

\* A call that both keeps a value equal to the threshold and rejects one.
C1_Witness ==
    /\ called /\ values # <<>> /\ badDataScaler >= 1
    /\ Len(filtered) < Len(values)
    /\ \E k \in 1 .. Len(filtered) :
           2 * filtered[k] = MedianTwice(values) * badDataScaler

(***************************************************************************)
(* Steps of the wrapper, as seen from outside.                             *)
(***************************************************************************)
\* The target of thread t's innermost call raises and the call ends.
Raised(t) ==
    /\ InBody(t)
    /\ stack'[t] = Pop(stack[t])
    /\ calls'[Top(t).id].st = "raised"

\* Thread t's innermost call appends its Sample and returns.
Recorded(t) ==
    /\ At(t, "append")
    /\ stack'[t] = Pop(stack[t])

(***************************************************************************)
(* C2, as stated.  When the target of a wrapped callable raises, the       *)
(* caller sees that same failure, and the results mapping after the        *)
(* failing call is identical to the mapping before the call.               *)
(***************************************************************************)
C2_ResultsIdenticalAcrossFailingCall ==
    [][\A t \in DOMAIN stack :
          Raised(t) =>
              /\ calls'[Top(t).id].seen = calls'[Top(t).id].exc
              /\ results' = Top(t).res0]_vars

(***************************************************************************)
(* C2, amended.  When the target of a wrapped callable raises, the caller  *)
(* sees that same failure, and the failing call itself records nothing:    *)
(* the step on which the failure leaves the wrapper changes neither the    *)
(* results mapping nor its key order, and no Sample in results ever        *)
(* belongs to a call that failed.  (The mapping can differ from the one at *)
(* the call's entry by the Samples of other calls, nested or concurrent.)  *)
(***************************************************************************)
C2_FailingCallRecordsNothing ==
    [][/\ \A t \in DOMAIN stack :
              Raised(t) =>
                  /\ calls'[Top(t).id].seen = calls'[Top(t).id].exc
                  /\ calls'[Top(t).id].exc \in Excs
                  /\ results' = results
                  /\ keys' = keys
       /\ \A n \in DOMAIN log' : \A i \in 1 .. Len(log'[n]) :
              calls'[log'[n][i]].st = "returned"]_vars

\* A call has failed after a call nested in it was recorded.
C2_Witness ==
    \E i \in 1 .. Len(calls) : \E j \in 1 .. Len(calls) :
        /\ calls[i].st = "raised" /\ calls[i].seen = calls[i].exc
        /\ i < j /\ calls[j].thread = calls[i].thread
        /\ calls[j].seen = "returned"
        /\ \E n \in DOMAIN log : \E k \in 1 .. Len(log[n]) : log[n][k] = j

(***************************************************************************)
(* C3.  After any sequence of wrapped calls, each of which has returned or *)
(* raised, no memory-tracking session started by the wrapper is active.    *)
(***************************************************************************)
C3_TrackingStoppedOnEveryExit ==
    (Idle /\ calls # <<>>) => ~tracing

(***************************************************************************)
(* C4.  Once all wrapped calls have finished, all of them successfully,    *)
(* the record of each function name holds exactly as many Samples as there *)
(* were calls of that name, under every interleaving.                      *)
(***************************************************************************)
CallsOf(n) == {i \in 1 .. Len(calls) : FuncName(calls[i].func) = n}

C4_NoSampleLost ==
    (Idle /\ \A i \in 1 .. Len(calls) : calls[i].seen = "returned") =>
        \A n \in Names :
            Cardinality(CallsOf(n)) =
                IF n \in DOMAIN results THEN Len(results[n]) ELSE 0

(***************************************************************************)
(* C6.  Recorder state is append-only: no step removes a function name     *)
(* from results, every record keeps its earlier Samples as a prefix, and   *)
(* it grows by exactly one Sample when a successful wrapped call of that   *)
(* name is recorded and by none otherwise.                                 *)
(***************************************************************************)
C6_AppendOnly ==
    [][\A n \in DOMAIN results :
          /\ n \in DOMAIN results'
          /\ IsPrefix(results[n], results'[n])
          /\ Len(results'[n]) - Len(results[n]) =
                IF \E t \in DOMAIN stack :
                       Recorded(t) /\ FuncName(Top(t).func) = n
                THEN 1 ELSE 0]_vars

(***************************************************************************)
(* C7, as stated.  Within one record the Samples are in call order: the    *)
(* Sample of the call invoked first sits before the Sample of the call     *)
(* invoked later, also when the later call is nested in the earlier one.   *)
(***************************************************************************)
C7_InsertionOrderIsInvocationOrder ==
    \A n \in DOMAIN log : \A i \in 1 .. Len(log[n]) : \A j \in 1 .. Len(log[n]) :
        i < j => log[n][i] < log[n][j]

(***************************************************************************)
(* C7, amended.  Within one record the Samples of the calls made on one    *)
(* thread are in the order in which those calls returned: a call nested in *)
(* an earlier call has its Sample before that of the enclosing call, and   *)
(* calls that do not overlap are in the order of their invocation.         *)
(***************************************************************************)
C7_InsertionOrderIsReturnOrder ==
    \A n \in DOMAIN log : \A i \in 1 .. Len(log[n]) : \A j \in 1 .. Len(log[n]) :
        (i < j /\ calls[log[n][i]].thread = calls[log[n][j]].thread) =>
            /\ calls[log[n][i]].ret > 0
            /\ calls[log[n][i]].ret < calls[log[n][j]].ret

\* The Sample of a nested call sits before the Sample of the enclosing call.
C7_Witness ==
    \E n \in DOMAIN log : \E i \in 1 .. Len(log[n]) : \E j \in 1 .. Len(log[n]) :
        /\ i < j
        /\ calls[log[n][i]].thread = calls[log[n][j]].thread
        /\ log[n][i] > log[n][j]

(***************************************************************************)
(* C10.  From the moment a wrapped call starts tracking until that call    *)
(* reads its peak memory, tracking stays active, whatever other wrapped    *)
(* calls (nested or concurrent) start and stop in between.                 *)
(***************************************************************************)
C10_TrackingWindowNotCutShort ==
    \A t \in DOMAIN stack : \A i \in 1 .. Len(stack[t]) :
        stack[t][i].pc = "body" => tracing

(***************************************************************************)
(* C8.  Function identity is the declared name only: every Sample sits in  *)
(* the record named after its callable, so two callables that share a name *)
(* share one record and callables with different names never do; and a     *)
(* call of a name that already had a record when the call began appends to *)
(* that record, which is neither replaced nor cleared.                     *)
(***************************************************************************)
C8_IdentityIsDeclaredName ==
    [][/\ DOMAIN results' \subseteq Names
       /\ \A n \in DOMAIN log' : \A i \in 1 .. Len(log'[n]) :
              FuncName(calls'[log'[n][i]].func) = n
       /\ \A t \in DOMAIN stack :
              (At(t, "stop") /\ stack'[t] # stack[t] /\ Top(t).had) =>
                  stack'[t][Len(stack'[t])].pc = "append"
       /\ \A t \in DOMAIN stack :
              Recorded(t) =>
                  LET n == FuncName(Top(t).func) IN
                      /\ n \in DOMAIN results
                      /\ results' = [results EXCEPT
                                        ![n] = Append(@, Sample(Top(t)))]]_vars

\* The record "f" holds a Sample of f1 and, after it, a Sample of f2.
C8_Witness ==
    /\ "f" \in DOMAIN log
    /\ \E i \in 1 .. Len(log["f"]) : \E j \in 1 .. Len(log["f"]) :
           /\ i < j
           /\ calls[log["f"][i]].func = "f1"
           /\ calls[log["f"][j]].func = "f2"
    /\ Len(results["f"]) = Len(log["f"])

(***************************************************************************)
(* C5.  prints fails with a distinguishable InsufficientData error         *)
(* whenever a recorded function has no duration left after filtering.      *)
(***************************************************************************)
C5_InsufficientDataReported ==
    [][\A showPlot \in BOOLEAN :
          (prints(showPlot)
           /\ \E n \in DOMAIN results : NothingLeft(results[n])) =>
              status' = "InsufficientData"]_vars

(***************************************************************************)
(* C9.  In the report of a function, count, total, max, min, mean, median  *)
(* and standard deviation are those of the durations the filter keeps,     *)
(* and the mean memory is that of the memory of all recorded Samples: with *)
(* k of n durations rejected, Count is n - k and Mean Memory averages n    *)
(* values.                                                                 *)
(***************************************************************************)
ReportedFor(n, r) ==
    LET t == times_of(results[n])
        m == memories_of(results[n])
        I == AtOrBelow(t, badDataScaler)
        kept == Pick(t, I)
        total == SumAt(t, I)
    IN  /\ r.Count = Cardinality(I)
        /\ r.Total = total
        /\ r.Maximum \in {t[i] : i \in I}
        /\ \A i \in I : t[i] <= r.Maximum /\ r.Minimum <= t[i]
        /\ r.Minimum \in {t[i] : i \in I}
        /\ r.Average = <<total, Cardinality(I)>>
        /\ r.Median = <<MedianTwice(kept), 2>>
        /\ r.StdSq = <<Cardinality(I) * SumAt(SquaresOf(t), I) - total * total,
                       Cardinality(I) * Cardinality(I)>>
        /\ r.MeanMemory = <<SumAt(m, 1 .. Len(m)), Len(results[n])>>

C9_StatisticsOverFilteredTimesAllMemory ==
    [][\A showPlot \in BOOLEAN :
          prints(showPlot) =>
              \A n \in DOMAIN report' : ReportedFor(n, report'[n])]_vars

\* A report with a rejected duration whose memory still counts in the mean.
C9_Witness ==
    /\ status = "ok"
    /\ \E n \in DOMAIN report :
           /\ report[n].Count >= 1
           /\ report[n].Count < Len(results[n])
           /\ report[n].MeanMemory[2] = Len(results[n])
           /\ \E i \in 1 .. Len(results[n]) :
                  /\ i \notin AtOrBelow(times_of(results[n]), badDataScaler)
                  /\ results[n][i].m > 0

====
